---- MODULE Spec2Model ----
(***************************************************************************)
(* The Anime API of src/main.py: a FastAPI service over one MongoDB        *)
(* collection.  The state is the collection (store), the service clock     *)
(* (datetime.utcnow) and the requests in flight (req): every handler runs  *)
(* atomically up to each `await` of a backend call, so one action is one   *)
(* backend call together with the code before and after it.                *)
(*                                                                         *)
(* Encoding.  Python None / BSON null is None == <<>> and a present value  *)
(* v is Some(v) == <<v>>; a key that is absent from a (sub)document is     *)
(* absent from the record's DOMAIN.  Of the scalar fields of AnimeBase     *)
(* title and synopsis are modelled; alt_titles, year, genres and           *)
(* poster_url go through the very same statements as synopsis.             *)
(***************************************************************************)
EXTENDS Integers, Sequences, FiniteSets, TLC

VARIABLES store, clock, req, quota

vars == <<store, clock, req, quota>>

(* ------------------------------ bounds -------------------------------- *)
\* Requests that reach a write of the collection (add_anime's insert, edit_anime's
\* and add_link's update) among the requests served one at a time
MaxOps == 3

\* edit_anime and add_link requests that reach their update among the requests
\* served concurrently on one record
MaxConcWrites == 2

(* ------------------------- optional values ---------------------------- *)
None == <<>>

Some(v) == <<v>>

Val(o) == o[1]

Min2(a, b) == IF a < b THEN a ELSE b

(* ------------------------------ ids ----------------------------------- *)
\* ObjectId.is_valid accepts exactly the strings of 24 hex digits; the model
\* scales the length to IdLen.
IdLen == 2

HexLower == <<"0", "1", "2", "3", "4", "5", "6", "7", "8", "9", "a", "b", "c", "d", "e", "f">>

HexUpper == <<"0", "1", "2", "3", "4", "5", "6", "7", "8", "9", "A", "B", "C", "D", "E", "F">>

IsHexChar(c) == \E i \in 1..16 : HexLower[i] = c \/ HexUpper[i] = c

HexVal(c) == (CHOOSE i \in 1..16 : HexLower[i] = c \/ HexUpper[i] = c) - 1

IsValidId(id) == Len(id) = IdLen /\ \A i \in 1..Len(id) : IsHexChar(id[i])

\* ObjectId(id): the bytes the hex string denotes.
ObjectId(id) == [i \in 1..Len(id) |-> HexVal(id[i])]

\* str(oid): lower-case hex.
OidStr(oid) == [i \in 1..Len(oid) |-> HexLower[oid[i] + 1]]

\* The n-th identifier the backend assigns at insert.
NewOid(n) == <<10, n>>

\* doc_to_json: the _id key is replaced by the public id string.
DocToJson(d) ==
  [k \in (DOMAIN d \ {"_id"}) \cup {"id"} |-> IF k = "id" THEN OidStr(d._id) ELSE d[k]]

(* ---------------------------- pydantic models ------------------------- *)
UpdateFields == {"title", "type", "synopsis", "movie_stream_links", "seasons"}

Get(rec, k, default) == IF k \in DOMAIN rec THEN rec[k] ELSE default

\* Episode(**e).dict(): every field present, the unset ones None.
EpisodeDict(e) ==
  [number |-> e.number, title |-> Get(e, "title", None), stream_links |-> Get(e, "stream_links", None)]

\* Season(**s).dict()
SeasonDict(s) ==
  [season |-> s.season,
   episodes |-> IF Get(s, "episodes", None) = None THEN None
                ELSE Some([i \in 1..Len(Val(s.episodes)) |-> EpisodeDict(Val(s.episodes)[i])])]

\* AnimeCreate(**body).dict(): the document add_anime inserts, before added_at.
AnimeCreateDict(body) ==
  [title |-> body.title,
   type |-> body.type,
   synopsis |-> Get(body, "synopsis", None),
   movie_stream_links |-> Get(body, "movie_stream_links", None),
   seasons |-> IF Get(body, "seasons", None) = None THEN None
               ELSE Some([i \in 1..Len(Val(body.seasons)) |-> SeasonDict(Val(body.seasons)[i])])]

\* AnimeUpdate(**body).dict(exclude_unset=True): the supplied fields of the model,
\* an explicit null included; keys the model does not declare are ignored.
AnimeUpdateDict(body) == [k \in DOMAIN body \cap UpdateFields |-> body[k]]

(* ------------------------------ inputs -------------------------------- *)
LinkA == [label |-> "1080p", url |-> "https://cdn/1"]

LinkB == [label |-> "720p", url |-> "https://x/a"]

\* Two seasons that both hold an episode numbered 1.
SeasonsTwo ==
  << [season |-> 1,
      episodes |-> Some(<< [number |-> 1, stream_links |-> Some(<<LinkB>>)],
                           [number |-> 2, stream_links |-> Some(<<>>)] >>)],
     [season |-> 2,
      episodes |-> Some(<< [number |-> 1, stream_links |-> Some(<<>>)] >>)] >>

\* Two seasons sharing the number 1 (nothing enforces uniqueness), the episode
\* of the first sent without stream_links, and a season sent without episodes.
SeasonsDup ==
  << [season |-> 1, episodes |-> Some(<< [number |-> 2] >>)],
     [season |-> 1,
      episodes |-> Some(<< [number |-> 1, stream_links |-> Some(<<LinkB>>)],
                           [number |-> 1, stream_links |-> Some(<<>>)] >>)],
     [season |-> 2] >>

\* Request bodies of POST /addanime.
CreateBodies ==
  { [title |-> Some("Test"), type |-> Some("movie")],
    [title |-> Some("Test"), type |-> Some("movie"), movie_stream_links |-> Some(<<>>)],
    [title |-> Some("Show"), type |-> Some("series")],
    [title |-> Some("Show"), type |-> Some("series"), seasons |-> Some(SeasonsTwo)],
    [title |-> Some("Show"), type |-> Some("series"), seasons |-> Some(SeasonsDup)] }

\* Request bodies of PATCH /editanime/{id}: sparse, a null explicit, nested models
\* sparse as well, and keys AnimeUpdate does not declare.
EditBodies ==
  { [k \in {} |-> None],
    [added_at |-> 0, id |-> <<"f", "f">>],
    [synopsis |-> Some("new synopsis"), added_at |-> 0],
    [type |-> Some("series")],
    [type |-> Some("movie")],
    [type |-> None, title |-> Some("Renamed")],
    [movie_stream_links |-> None, synopsis |-> Some("new synopsis")],
    [seasons |-> Some(<< [season |-> 1, episodes |-> Some(<< [number |-> 1] >>)] >>)] }

\* Ids a request may carry: those of the records the backend can hold (in lower
\* and in upper case), a well-formed id no record has, and malformed ones.
RequestIds ==
  { <<"a", HexLower[n + 1]>> : n \in 1..MaxOps } \cup
  { <<"A", "1">>, <<"f", "f">>, <<"z", "1">>, <<"a">> }

SeasonArgs == {None, Some(1), Some(2)}

EpisodeArgs == {None, Some(0), Some(1), Some(2)}

BolumArgs == {None, Some(1)}

LinkLists == { <<LinkA>>, <<LinkA, LinkB>> }

(* ------------------------- requests in flight ------------------------- *)
Reqs == {"r1", "r2"}

\* A request slot: where the handler stands (pc), its parameters and locals, and
\* once it is done its response (status, and the body by kind: a record, the
\* links of /stream, the items of a listing).
Idle ==
  [pc |-> "idle", op |-> "", id |-> <<>>, season |-> None, episode |-> None,
   links |-> <<>>, update |-> <<>>, doctype |-> None,
   status |-> 0, doc |-> None, slinks |-> None, items |-> <<>>]

Response(status, doc, slinks, items) ==
  [status |-> status, doc |-> doc, slinks |-> slinks, items |-> items]

Error(status) == Response(status, None, None, <<>>)

\* The slot of a finished request: its parameters kept, its response filled in.
Done(slot, op, resp) ==
  [slot EXCEPT !.pc = "done", !.op = op, !.status = resp.status, !.doc = resp.doc,
               !.slinks = resp.slinks, !.items = resp.items]

Init ==
  /\ store = [o \in {} |-> None]
  /\ clock = 0
  /\ req = [r \in Reqs |-> Idle]
  /\ quota = MaxOps

(* ------------------------------ reads --------------------------------- *)
\* get_details
DetailsResponse(id) ==
  IF ~IsValidId(id) THEN Error(400)
  ELSE IF ObjectId(id) \notin DOMAIN store THEN Error(404)
  ELSE Response(200, Some(DocToJson(store[ObjectId(id)])), None, <<>>)

GetDetails(r) ==
  /\ req[r].pc = "idle"
  /\ \E id \in RequestIds :
       req' = [req EXCEPT ![r] = Done(Idle, "details", DetailsResponse(id))]
  /\ UNCHANGED <<store, clock, quota>>

\* Python's `a or b` on optional integers: b when a is None or 0.
PyOr(a, b) == IF a = None \/ a = Some(0) THEN b ELSE a

\* The inner loop of get_stream: the first episode of eps, from index i on, whose
\* number is ep_num; its stream_links as stored ([] when the key is absent).
RECURSIVE ScanEpisodes(_, _, _)
ScanEpisodes(eps, ep_num, i) ==
  IF i > Len(eps) THEN Error(404)
  ELSE IF eps[i].number = ep_num
       THEN Response(200, None, Some(Get(eps[i], "stream_links", Some(<<>>))), <<>>)
       ELSE ScanEpisodes(eps, ep_num, i + 1)

\* The outer loop of get_stream.  Iterating a null episodes list raises
\* TypeError, which the framework answers with 500.
RECURSIVE ScanSeasons(_, _, _, _)
ScanSeasons(seasons, season, ep_num, i) ==
  IF i > Len(seasons) THEN Error(404)
  ELSE IF seasons[i].season = season
       THEN LET eps == Get(seasons[i], "episodes", Some(<<>>))
            IN  IF eps = None THEN Error(500)
                ELSE LET found == ScanEpisodes(Val(eps), ep_num, 1)
                     IN  IF found.status = 200 THEN found
                         ELSE ScanSeasons(seasons, season, ep_num, i + 1)
       ELSE ScanSeasons(seasons, season, ep_num, i + 1)

\* get_stream
StreamResponse(id, season, bolum, episode) ==
  IF ~IsValidId(id) THEN Error(400)
  ELSE IF ObjectId(id) \notin DOMAIN store THEN Error(404)
  ELSE LET doc == store[ObjectId(id)]
           ep_num == PyOr(episode, bolum)
       IN  IF Get(doc, "type", None) = Some("movie")
           THEN Response(200, None, Some(Get(doc, "movie_stream_links", Some(<<>>))), <<>>)
           ELSE IF season = None \/ ep_num = None THEN Error(400)
           ELSE LET seasons == Get(doc, "seasons", Some(<<>>))
                IN  IF seasons = None THEN Error(500)
                    ELSE ScanSeasons(Val(seasons), Val(season), Val(ep_num), 1)

GetStream(r) ==
  /\ req[r].pc = "idle"
  /\ \E id \in RequestIds, season \in SeasonArgs, bolum \in BolumArgs, episode \in EpisodeArgs :
       req' = [req EXCEPT ![r] = Done(Idle, "stream",
                                      StreamResponse(id, season, bolum, episode))]
  /\ UNCHANGED <<store, clock, quota>>

(* ----------------------------- listings ------------------------------- *)
\* pagination: limit: int = Query(24, ge=1, le=100), skip: int = Query(0, ge=0)
LimitMin == 1

LimitMax == 100

DefaultLimit == 24

SkipMin == 0

LimitArgs == {LimitMin - 1, LimitMin, DefaultLimit, LimitMax + 1}

SkipArgs == {SkipMin - 1, SkipMin, SkipMin + 1}

PaginationOk(limit, skip) == limit >= LimitMin /\ limit <= LimitMax /\ skip >= SkipMin

\* find(filter): filter is Some(type) for {"type": type} and None for {}.
Find(filter) == {o \in DOMAIN store : filter = None \/ store[o].type = filter}

\* A deliberately wrong variant of SortedDesc: sort("added_at", 1), oldest first.
SortedAsc(S) ==
  {s \in [1..Cardinality(S) -> S] :
     /\ \A i, j \in 1..Cardinality(S) : i # j => s[i] # s[j]
     /\ \A i, j \in 1..Cardinality(S) : i < j => store[s[i]].added_at <= store[s[j]].added_at}

\* sort("added_at", -1): the orders of the set in which added_at never increases;
\* the backend fixes no order among records of the same added_at.
SortedDesc(S) ==
  {s \in [1..Cardinality(S) -> S] :
     /\ \A i, j \in 1..Cardinality(S) : i # j => s[i] # s[j]
     /\ \A i, j \in 1..Cardinality(S) : i < j => store[s[i]].added_at >= store[s[j]].added_at}

\* skip(skip).limit(limit)
SkipLimit(s, skip, limit) == SubSeq(s, skip + 1, Min2(Len(s), skip + limit))

\* The responses a listing can give: one per order the cursor may deliver.
ListResponses(filter, limit, skip) ==
  IF ~PaginationOk(limit, skip) THEN {Error(422)}
  ELSE {Response(200, None, None,
                 [i \in 1..Len(SkipLimit(s, skip, limit)) |->
                    DocToJson(store[SkipLimit(s, skip, limit)[i]])]) :
          s \in SortedDesc(Find(filter))}

List(r, op, filter) ==
  /\ req[r].pc = "idle"
  /\ \E limit \in LimitArgs, skip \in SkipArgs :
       \E resp \in ListResponses(filter, limit, skip) :
         req' = [req EXCEPT ![r] = Done(Idle, op, resp)]
  /\ UNCHANGED <<store, clock, quota>>

GetMovies(r) == List(r, "movies", Some("movie"))

GetSeries(r) == List(r, "series", Some("series"))

GetLatest(r) == List(r, "latest", None)

(* --------------------------- backend updates -------------------------- *)
\* A deliberately wrong variant of SetFields: the document replaced by the update (replace_one in
\* place of $set), only its _id kept.
SetFieldsReplace(d, upd) ==
  [k \in DOMAIN upd \cup {"_id"} |-> IF k \in DOMAIN upd THEN upd[k] ELSE d[k]]

\* update_one(..., {"$set": upd}): the named top-level fields replaced whole.
SetFields(d, upd) ==
  [k \in DOMAIN d \cup DOMAIN upd |-> IF k \in DOMAIN upd THEN upd[k] ELSE d[k]]

\* $push with $each on one field: the array is created when the key is absent,
\* extended when it is an array; on any other value (null) the write fails.
CanPush(rec, k) == Get(rec, k, Some(<<>>)) # None

Push(rec, k, L) ==
  [f \in DOMAIN rec \cup {k} |-> IF f = k THEN Some(Val(Get(rec, k, Some(<<>>))) \o L) ELSE rec[f]]

\* The result of a write: whether it failed, and the document afterwards.
WriteOk(d) == [error |-> FALSE, doc |-> d]

WriteError(d) == [error |-> TRUE, doc |-> d]

\* {"$push": {"movie_stream_links": {"$each": L}}} on the document of the id.
PushMovieLinks(d, L) ==
  IF CanPush(d, "movie_stream_links") THEN WriteOk(Push(d, "movie_stream_links", L))
  ELSE WriteError(d)

HasEpisodes(s) == Get(s, "episodes", None) # None

\* The query {"seasons.season": S, "seasons.episodes.number": E}: each condition is
\* met by some element of seasons, not necessarily the same one.
EpisodeFilter(d, S, E) ==
  /\ Get(d, "seasons", None) # None
  /\ \E i \in 1..Len(Val(d.seasons)) : Val(d.seasons)[i].season = S
  /\ \E i \in 1..Len(Val(d.seasons)) :
       /\ HasEpisodes(Val(d.seasons)[i])
       /\ \E j \in 1..Len(Val(Val(d.seasons)[i].episodes)) :
            Val(Val(d.seasons)[i].episodes)[j].number = E

\* The array filter [{"ep.number": E}].
ArrayFilter(ep, E) == ep.number = E

\* episodes.$[ep].stream_links under one element of seasons
PushSeason(s, E, L) ==
  [s EXCEPT !.episodes =
     Some([j \in 1..Len(Val(@)) |->
             IF ArrayFilter(Val(@)[j], E) THEN Push(Val(@)[j], "stream_links", L)
             ELSE Val(@)[j]])]

CanPushSeason(s, E) ==
  /\ HasEpisodes(s)
  /\ \A j \in 1..Len(Val(s.episodes)) :
       ArrayFilter(Val(s.episodes)[j], E) => CanPush(Val(s.episodes)[j], "stream_links")

\* {"$push": {"seasons.$[].episodes.$[ep].stream_links": {"$each": L}}}: $[] is
\* every element of seasons.  A document the query does not match is left alone;
\* an element the path cannot be applied to fails the whole write.
PushEpisodeLinks(d, S, E, L) ==
  IF ~EpisodeFilter(d, S, E) THEN WriteOk(d)
  ELSE IF \A i \in 1..Len(Val(d.seasons)) : CanPushSeason(Val(d.seasons)[i], E)
       THEN WriteOk([d EXCEPT !.seasons =
                       Some([i \in 1..Len(Val(@)) |-> PushSeason(Val(@)[i], E, L)])])
       ELSE WriteError(d)

(* ------------------------------ add_anime ----------------------------- *)
\* payload.dict(), added_at = utcnow(), insert_one.  The clock never runs
\* backwards; two inserts may read the same instant.
AddAnimeInsert(r) ==
  /\ req[r].pc = "idle"
  /\ quota > 0
  /\ quota' = quota - 1
  /\ \E body \in CreateBodies, now \in {clock, clock + 1} :
       LET oid == NewOid(Cardinality(DOMAIN store) + 1)
           data == AnimeCreateDict(body)
           doc == [k \in DOMAIN data \cup {"_id", "added_at"} |->
                     IF k = "_id" THEN oid ELSE IF k = "added_at" THEN now ELSE data[k]]
       IN  /\ store' = [o \in DOMAIN store \cup {oid} |-> IF o = oid THEN doc ELSE store[o]]
           /\ clock' = now
           /\ req' = [req EXCEPT ![r] = [Idle EXCEPT !.pc = "add_find", !.op = "add",
                                                     !.id = OidStr(oid)]]

\* saved = find_one({"_id": res.inserted_id}); return doc_to_json(saved)
AddAnimeReturn(r) ==
  /\ req[r].pc = "add_find"
  /\ req' = [req EXCEPT ![r] =
               Done(@, "add", Response(201, Some(DocToJson(store[ObjectId(@.id)])), None, <<>>))]
  /\ UNCHANGED <<store, clock, quota>>

(* ------------------------------ edit_anime ---------------------------- *)
\* A deliberately wrong variant of EditCheck: the record looked up before the update is found empty.
EditCheckLookupFirst(id, body) ==
  IF ~IsValidId(id) THEN Some(Error(400))
  ELSE IF ObjectId(id) \notin DOMAIN store THEN Some(Error(404))
  ELSE IF DOMAIN AnimeUpdateDict(body) = {} THEN Some(Error(400))
  ELSE None

\* What edit_anime answers without changing anything, or None when its $set is
\* applied: the id check, the empty-update check, and matched_count == 0.
EditCheck(id, body) ==
  IF ~IsValidId(id) THEN Some(Error(400))
  ELSE IF DOMAIN AnimeUpdateDict(body) = {} THEN Some(Error(400))
  ELSE IF ObjectId(id) \notin DOMAIN store THEN Some(Error(404))
  ELSE None

\* The checks and update_one({"_id": ObjectId(id)}, {"$set": update_data}).
EditUpdate(r) ==
  /\ req[r].pc = "idle"
  /\ \E id \in RequestIds, body \in EditBodies :
       IF EditCheck(id, body) # None
       THEN /\ req' = [req EXCEPT ![r] = Done(Idle, "edit", Val(EditCheck(id, body)))]
            /\ UNCHANGED <<store, quota>>
       ELSE /\ quota > 0
            /\ quota' = quota - 1
            /\ store' = [store EXCEPT ![ObjectId(id)] = SetFields(@, AnimeUpdateDict(body))]
            /\ req' = [req EXCEPT ![r] = [Idle EXCEPT !.pc = "edit_find", !.op = "edit",
                                                      !.id = id,
                                                      !.update = AnimeUpdateDict(body)]]
  /\ UNCHANGED clock

\* doc = find_one(...); return doc_to_json(doc)
EditReturn(r) ==
  /\ req[r].pc = "edit_find"
  /\ req' = [req EXCEPT ![r] =
               Done(@, "edit", Response(200, Some(DocToJson(store[ObjectId(@.id)])), None, <<>>))]
  /\ UNCHANGED <<store, clock, quota>>

(* ------------------------------- add_link ----------------------------- *)
\* What add_link answers before it writes, or None when it goes on to its
\* update: the id check, doc = find_one(...), and for a record that is not a
\* movie the check that season and episode were sent.
AddLinkCheck(id, season, episode) ==
  IF ~IsValidId(id) THEN Some(Error(400))
  ELSE IF ObjectId(id) \notin DOMAIN store THEN Some(Error(404))
  ELSE IF store[ObjectId(id)].type # Some("movie") /\ (season = None \/ episode = None)
       THEN Some(Error(400))
  ELSE None

\* The checks on the record as find_one returns it; the type read here decides
\* which update is sent.
AddLinkFind(r) ==
  /\ req[r].pc = "idle"
  /\ \E id \in RequestIds, season \in SeasonArgs, episode \in SeasonArgs, links \in LinkLists :
       IF AddLinkCheck(id, season, episode) # None
       THEN /\ req' = [req EXCEPT ![r] = Done(Idle, "link", Val(AddLinkCheck(id, season, episode)))]
            /\ UNCHANGED quota
       ELSE /\ quota > 0
            /\ quota' = quota - 1
            /\ req' = [req EXCEPT ![r] = [Idle EXCEPT !.pc = "link_update", !.op = "link",
                                                      !.id = id, !.season = season,
                                                      !.episode = episode, !.links = links,
                                                      !.doctype = store[ObjectId(id)].type]]
  /\ UNCHANGED <<store, clock>>

\* A deliberately wrong variant of AddLinkWrite: the movie update sent whatever type was read.
AddLinkWriteAlwaysMovie(d, doctype, season, episode, links) == PushMovieLinks(d, links)

\* The update the branch chose, applied by the backend to the document as it is
\* now.  A failed write raises, which the framework answers with 500.
AddLinkWrite(d, doctype, season, episode, links) ==
  IF doctype = Some("movie") THEN PushMovieLinks(d, links)
  ELSE PushEpisodeLinks(d, Val(season), Val(episode), links)

AddLinkUpdate(r) ==
  /\ req[r].pc = "link_update"
  /\ LET oid == ObjectId(req[r].id)
         w == AddLinkWrite(store[oid], req[r].doctype, req[r].season, req[r].episode,
                           req[r].links)
     IN  /\ store' = [store EXCEPT ![oid] = w.doc]
         /\ req' = [req EXCEPT ![r] = IF w.error THEN Done(@, "link", Error(500))
                                      ELSE [@ EXCEPT !.pc = "link_find"]]
  /\ UNCHANGED <<clock, quota>>

\* updated = find_one(...); return doc_to_json(updated)
AddLinkReturn(r) ==
  /\ req[r].pc = "link_find"
  /\ req' = [req EXCEPT ![r] =
               Done(@, "link", Response(200, Some(DocToJson(store[ObjectId(@.id)])), None, <<>>))]
  /\ UNCHANGED <<store, clock, quota>>

\* The response leaves the service; the slot serves the next request.
Deliver(r) ==
  /\ req[r].pc = "done"
  /\ req' = [req EXCEPT ![r] = Idle]
  /\ UNCHANGED <<store, clock, quota>>

\* One request at a time: every operation, each running to its response before
\* the next request arrives.
Serial == {"r1"}

Next ==
  \E r \in Serial :
    \/ GetMovies(r)
    \/ GetSeries(r)
    \/ GetLatest(r)
    \/ GetDetails(r)
    \/ GetStream(r)
    \/ AddAnimeInsert(r)
    \/ AddAnimeReturn(r)
    \/ EditUpdate(r)
    \/ EditReturn(r)
    \/ AddLinkFind(r)
    \/ AddLinkUpdate(r)
    \/ AddLinkReturn(r)
    \/ Deliver(r)

Spec == Init /\ [][Next]_vars

\* Concurrent mutation of one record: the service starts with a record that one
\* add_anime has stored, and edit_anime and add_link requests interleave at
\* their backend calls.
InitConc ==
  /\ \E body \in CreateBodies :
       store = [o \in {NewOid(1)} |->
                  [k \in DOMAIN AnimeCreateDict(body) \cup {"_id", "added_at"} |->
                     IF k = "_id" THEN o ELSE IF k = "added_at" THEN 1
                     ELSE AnimeCreateDict(body)[k]]]
  /\ clock = 1
  /\ req = [r \in Reqs |-> Idle]
  /\ quota = MaxConcWrites

NextConc ==
  \E r \in Reqs :
    \/ EditUpdate(r)
    \/ EditReturn(r)
    \/ AddLinkFind(r)
    \/ AddLinkUpdate(r)
    \/ AddLinkReturn(r)
    \/ Deliver(r)

SpecConc == InitConc /\ [][NextConc]_vars

(* ====================================================================== *)
(* The claims                                                             *)
(* ====================================================================== *)
\* The list a nullable or absent list field stands for.
ListOf(rec, k) == IF Get(rec, k, None) = None THEN <<>> ELSE Val(rec[k])

\* The step in which the backend applies add_link's update without failing.
LinkWritten(r) == req[r].pc = "link_update" /\ req'[r].pc = "link_find"

\* The positions <<i, j>> of the episodes numbered E inside a season numbered S.
Targets(d, S, E) ==
  UNION {{<<i, j>> : j \in {j \in 1..Len(ListOf(ListOf(d, "seasons")[i], "episodes")) :
                              ListOf(ListOf(d, "seasons")[i], "episodes")[j].number = E}} :
         i \in {i \in 1..Len(ListOf(d, "seasons")) : ListOf(d, "seasons")[i].season = S}}

EpisodeAt(d, p) == ListOf(ListOf(d, "seasons")[p[1]], "episodes")[p[2]]

\* C1 (as claimed): add_link on a series with season S, episode E and links L
\* changes only the stream-link list of the episode numbered E inside the season
\* numbered S, which becomes its old value followed by L; every other episode,
\* an episode numbered E of another season included, every season and every
\* top-level field stays as it was.
C1_OnlyTargetEpisodeGrows ==
  [][\A r \in Reqs :
       (LinkWritten(r) /\ req[r].doctype = Some("series")) =>
         LET oid == ObjectId(req[r].id)
             S == Val(req[r].season)
             E == Val(req[r].episode)
         IN  /\ \A o \in DOMAIN store \ {oid} : store'[o] = store[o]
             /\ \A k \in DOMAIN store[oid] \ {"seasons"} : store'[oid][k] = store[oid][k]
             /\ Len(ListOf(store'[oid], "seasons")) = Len(ListOf(store[oid], "seasons"))
             /\ \A i \in 1..Len(ListOf(store[oid], "seasons")) :
                  LET old == ListOf(store[oid], "seasons")[i]
                      new == ListOf(store'[oid], "seasons")[i]
                  IN  /\ new.season = old.season
                      /\ Len(ListOf(new, "episodes")) = Len(ListOf(old, "episodes"))
                      /\ \A j \in 1..Len(ListOf(old, "episodes")) :
                           IF old.season = S /\ ListOf(old, "episodes")[j].number = E
                           THEN ListOf(ListOf(new, "episodes")[j], "stream_links")
                                  = ListOf(ListOf(old, "episodes")[j], "stream_links")
                                      \o req[r].links
                           ELSE ListOf(new, "episodes")[j] = ListOf(old, "episodes")[j]]_vars

\* C2 (as claimed): when no season numbered S holds an episode numbered E (the
\* pairs for which /stream answers 404), add_link on a series is a silent no-op:
\* the write succeeds and the store is exactly as before, also when a season
\* numbered S exists and an episode numbered E exists only in another season.
C2_NoTargetIsNoOp ==
  [][\A r \in Reqs :
       (/\ req[r].pc = "link_update"
        /\ req[r].doctype = Some("series")
        /\ Targets(store[ObjectId(req[r].id)], Val(req[r].season), Val(req[r].episode)) = {})
       => (req'[r].pc = "link_find" /\ store' = store)]_vars

\* What C3 says /stream answers for a series record, season S and episode E: the
\* links of the first episode numbered E of the first season numbered S, and 404
\* when there is no season numbered S or that season has no episode numbered E.
FirstSeason(d, S) ==
  CHOOSE i \in 1..Len(ListOf(d, "seasons")) :
    /\ ListOf(d, "seasons")[i].season = S
    /\ \A h \in 1..(i - 1) : ListOf(d, "seasons")[h].season # S

FirstEpisode(s, E) ==
  CHOOSE j \in 1..Len(ListOf(s, "episodes")) :
    /\ ListOf(s, "episodes")[j].number = E
    /\ \A h \in 1..(j - 1) : ListOf(s, "episodes")[h].number # E

ClaimedStream(d, S, E) ==
  IF \A i \in 1..Len(ListOf(d, "seasons")) : ListOf(d, "seasons")[i].season # S
  THEN Error(404)
  ELSE LET s == ListOf(d, "seasons")[FirstSeason(d, S)]
       IN  IF \A j \in 1..Len(ListOf(s, "episodes")) : ListOf(s, "episodes")[j].number # E
           THEN Error(404)
           ELSE Response(200, None,
                         Some(Get(ListOf(s, "episodes")[FirstEpisode(s, E)], "stream_links",
                                  Some(<<>>))), <<>>)

\* C3 (as claimed): for every series record and every /stream request with season
\* and episode supplied the answer is exactly ClaimedStream, whatever the record's
\* seasons and episodes lists are (null, absent, seasons sharing a number).
C3_StreamFirstMatchOrNotFound ==
  \A o \in DOMAIN store : \A S \in SeasonArgs \ {None}, E \in SeasonArgs \ {None} :
    \A bolum \in BolumArgs :
      store[o].type = Some("series") =>
        StreamResponse(OidStr(o), S, bolum, E) = ClaimedStream(store[o], Val(S), Val(E))

\* L occurs in list as a contiguous block starting after position k.
OccursAt(list, L, k) == k + Len(L) <= Len(list) /\ SubSeq(list, k + 1, k + Len(L)) = L

\* Both L1 and L2 occur in list, as blocks that do not overlap.
HoldsBoth(list, L1, L2) ==
  \E k1, k2 \in 0..Len(list) :
    /\ OccursAt(list, L1, k1)
    /\ OccursAt(list, L2, k2)
    /\ (k1 + Len(L1) <= k2 \/ k2 + Len(L2) <= k1)

\* An add_link request that got as far as its update and has been answered.
LinkAnswered(r) == req[r].pc = "done" /\ req[r].op = "link" /\ req[r].links # <<>>

\* C4 (as claimed): once two add_link requests on the same movie, or on the same
\* season and episode of a series, have both completed, the target list holds the
\* links of both, each request's links as one block in the order supplied.
C4_BothAppendsKept ==
  \A r1, r2 \in Reqs :
    (/\ r1 # r2
     /\ LinkAnswered(r1)
     /\ LinkAnswered(r2)
     /\ ObjectId(req[r1].id) = ObjectId(req[r2].id)
     /\ req[r1].doctype = req[r2].doctype
     /\ store[ObjectId(req[r1].id)].type = req[r1].doctype) =>
      LET d == store[ObjectId(req[r1].id)]
      IN  IF req[r1].doctype = Some("movie")
          THEN HoldsBoth(ListOf(d, "movie_stream_links"), req[r1].links, req[r2].links)
          ELSE (req[r1].season = req[r2].season /\ req[r1].episode = req[r2].episode) =>
                 \A p \in Targets(d, Val(req[r1].season), Val(req[r1].episode)) :
                   HoldsBoth(ListOf(EpisodeAt(d, p), "stream_links"),
                             req[r1].links, req[r2].links)

\* The step in which the backend applies edit_anime's $set.
EditWritten(r) == req[r].pc = "idle" /\ req'[r].pc = "edit_find"

\* A request answered in the step it arrived in, with op and status.
AnsweredAtOnce(r, op, status) ==
  req[r].pc = "idle" /\ req'[r].pc = "done" /\ req'[r].op = op /\ req'[r].status = status

\* An edit_anime body that supplies no field of AnimeUpdate is answered 400.
EmptyEditRejected(id) ==
  /\ EditCheck(id, [k \in {} |-> None]) = Some(Error(400))
  /\ EditCheck(id, [added_at |-> 0, id |-> <<"f", "f">>]) = Some(Error(400))

\* C5: edit_anime with a non-empty set F of top-level fields leaves each field of
\* F holding the supplied value (a supplied null included) and every other field,
\* the id and creation time among them, and every other record as stored; with no
\* field supplied it answers 400, for an existing record as for any well-formed
\* id, and changes nothing.
C5_EditSetsExactlySuppliedFields ==
  /\ \A id \in RequestIds : IsValidId(id) => EmptyEditRejected(id)
  /\ [][/\ store' # store => \A id \in RequestIds : IsValidId(id) => EmptyEditRejected(id)'
        /\ \A r \in Reqs :
             /\ EditWritten(r) =>
                  LET oid == ObjectId(req'[r].id)
                      F == DOMAIN req'[r].update
                  IN  /\ F # {}
                      /\ F \subseteq UpdateFields
                      /\ DOMAIN store' = DOMAIN store
                      /\ DOMAIN store'[oid] = DOMAIN store[oid]
                      /\ \A k \in F : store'[oid][k] = req'[r].update[k]
                      /\ \A k \in DOMAIN store[oid] \ F : store'[oid][k] = store[oid][k]
                      /\ \A o \in DOMAIN store \ {oid} : store'[o] = store[o]
             /\ AnsweredAtOnce(r, "edit", 400) => store' = store]_vars

\* C5's case: an edit that supplied two fields, one of them an explicit null, has
\* been applied to a record whose movie_stream_links held a list before.
C5_Witness ==
  \E r \in Reqs :
    /\ req[r].pc = "edit_find"
    /\ DOMAIN req[r].update = {"movie_stream_links", "synopsis"}
    /\ store[ObjectId(req[r].id)].movie_stream_links = None
    /\ store[ObjectId(req[r].id)].synopsis = Some("new synopsis")
    /\ store[ObjectId(req[r].id)].type = Some("movie")

\* The answers of the four id-taking operations to id, over all other parameters.
IdAnswers(id) ==
  {DetailsResponse(id).status} \cup
  {StreamResponse(id, S, B, E).status : S \in SeasonArgs, B \in BolumArgs, E \in EpisodeArgs} \cup
  {IF EditCheck(id, body) = None THEN 200 ELSE Val(EditCheck(id, body)).status :
     body \in EditBodies} \cup
  {IF AddLinkCheck(id, S, E) = None THEN 200 ELSE Val(AddLinkCheck(id, S, E)).status :
     S \in SeasonArgs, E \in SeasonArgs}

Unknown(id) == IsValidId(id) /\ ObjectId(id) \notin DOMAIN store

\* C6 (as claimed): a malformed id is answered 400 by each id-taking operation,
\* whatever the other parameters, and a well-formed id of no record is answered
\* 404 by each of them.
C6_Malformed400Unknown404 ==
  \A id \in RequestIds :
    /\ ~IsValidId(id) => IdAnswers(id) = {400}
    /\ Unknown(id) => IdAnswers(id) = {404}

\* The answers C6 (amended) describes for id, in the store as it is.
IdAnswersRight(id) ==
  /\ ~IsValidId(id) => IdAnswers(id) = {400}
  /\ Unknown(id) =>
       /\ DetailsResponse(id).status = 404
       /\ \A S \in SeasonArgs, B \in BolumArgs, E \in EpisodeArgs :
            StreamResponse(id, S, B, E).status = 404
       /\ \A S \in SeasonArgs, E \in SeasonArgs : AddLinkCheck(id, S, E) = Some(Error(404))
       /\ \A body \in EditBodies :
            EditCheck(id, body) =
              Some(Error(IF DOMAIN body \cap UpdateFields = {} THEN 400 ELSE 404))

\* C6 (amended): a malformed id is answered 400 by get_details, get_stream,
\* edit_anime and add_link whatever the other parameters; a well-formed id of no
\* record is answered 404 by get_details, get_stream and add_link, and by
\* edit_anime when its body supplies a field (400 when it supplies none); a
\* request answered 400 or 404 leaves the store unchanged.
C6_Malformed400Unknown404UnlessEmptyEdit ==
  /\ \A id \in RequestIds : IdAnswersRight(id)
  /\ [][/\ store' # store => \A id \in RequestIds : IdAnswersRight(id)'
        /\ \A r \in Reqs : \A op \in {"details", "stream", "edit", "link"} :
             (AnsweredAtOnce(r, op, 400) \/ AnsweredAtOnce(r, op, 404)) => store' = store]_vars

\* C6's case: with a record stored, an add_link request has been answered 404.
C6_Witness ==
  \E r \in Reqs :
    /\ DOMAIN store # {}
    /\ req[r].pc = "done"
    /\ req[r].op = "link"
    /\ req[r].status = 404

\* C7 (as claimed): add_link on a movie leaves movie_stream_links equal to its
\* previous contents followed by the links supplied, the list being created when
\* the record had none (stored as null by create); the write does not fail, and
\* the record then returned is the record as stored.
C7_MovieAppend ==
  [][\A r \in Reqs :
       /\ (req[r].pc = "link_update" /\ req[r].doctype = Some("movie")) =>
            LET oid == ObjectId(req[r].id)
            IN  /\ req'[r].pc = "link_find"
                /\ store'[oid].movie_stream_links =
                     Some(ListOf(store[oid], "movie_stream_links") \o req[r].links)
       /\ (req[r].pc = "link_find" /\ req'[r].pc = "done") =>
            /\ req'[r].status = 200
            /\ req'[r].doc = Some(DocToJson(store[ObjectId(req[r].id)]))]_vars

\* C8 (as claimed): for a movie record /stream answers 200 with the record's
\* movie_stream_links as a list, possibly empty, for every combination of season,
\* episode and alias, also for a movie created without movie_stream_links.
C8_MovieStreamIsAList ==
  \A o \in DOMAIN store : \A S \in SeasonArgs, B \in BolumArgs, E \in EpisodeArgs :
    store[o].type = Some("movie") =>
      StreamResponse(OidStr(o), S, B, E) =
        Response(200, None, Some(Some(ListOf(store[o], "movie_stream_links"))), <<>>)

\* The records a listing with this filter ranges over, by timestamp.
Newer(filter, t) == {o \in Find(filter) : store[o].added_at > t}

NotOlder(filter, t) == {o \in Find(filter) : store[o].added_at >= t}

Max2(a, b) == IF a > b THEN a ELSE b

\* Every answer a listing with this filter can give is right: only records of the type asked for
\* (any for latest), none twice, newest first, the records that rank skip + 1,
\* skip + 2, ... in that order, limit of them at most.
ListingRight(filter) ==
    \A limit \in LimitArgs, skip \in SkipArgs :
      PaginationOk(limit, skip) =>
        \A resp \in ListResponses(filter, limit, skip) :
          /\ resp.status = 200
          /\ Len(resp.items) = Max2(0, Min2(limit, Cardinality(Find(filter)) - skip))
          /\ \A i \in 1..Len(resp.items) :
               /\ filter # None => resp.items[i].type = filter
               /\ \E o \in Find(filter) : resp.items[i] = DocToJson(store[o])
               /\ \A j \in 1..Len(resp.items) :
                    /\ i < j => resp.items[i].added_at >= resp.items[j].added_at
                    /\ i # j => resp.items[i].id # resp.items[j].id
               /\ Cardinality(Newer(filter, resp.items[i].added_at)) <= skip + i - 1
               /\ Cardinality(NotOlder(filter, resp.items[i].added_at)) >= skip + i

\* C9: after any sequence of create, edit_anime and add_link the listings are
\* right (ListingRight, for movies, series and latest), and no step changes the creation timestamp or the id
\* of a stored record, so none moves a record in the order.
C9_ListingsFilteredNewestFirst ==
  /\ \A filter \in {Some("movie"), Some("series"), None} : ListingRight(filter)
  /\ [][/\ \A o \in DOMAIN store :
             /\ o \in DOMAIN store'
             /\ store'[o].added_at = store[o].added_at
             /\ store'[o]._id = store[o]._id
        /\ store' # store =>
             \A filter \in {Some("movie"), Some("series"), None} : ListingRight(filter)']_vars

\* C9's case: after an edit was applied to the older of two records, list-latest
\* returned both, the newer one first.
C9_Witness ==
  \E r \in Reqs :
    /\ req[r].pc = "done"
    /\ req[r].op = "latest"
    /\ Len(req[r].items) = 2
    /\ req[r].items[2].synopsis = Some("new synopsis")
    /\ req[r].items[1].added_at > req[r].items[2].added_at
    /\ req[r].items[1].id = OidStr(NewOid(2))

\* C10 (as claimed): add_link's update changes movie_stream_links only if the
\* record's type is movie at the moment the update is applied, and changes an
\* episode's stream_links only if the type is series at that moment.
C10_AppendMatchesCurrentType ==
  [][\A r \in Reqs :
       LinkWritten(r) =>
         LET oid == ObjectId(req[r].id)
         IN  /\ store'[oid].movie_stream_links # store[oid].movie_stream_links
                  => store[oid].type = Some("movie")
             /\ store'[oid].seasons # store[oid].seasons
                  => store[oid].type = Some("series")]_vars

\* C10 (amended): add_link's update changes movie_stream_links only if the type
\* add_link read from the record before its update was movie, and changes an
\* episode's stream_links only if the type it read was not movie; the type the
\* record has when the update is applied may differ from the type read.
C10_AppendMatchesTypeRead ==
  [][\A r \in Reqs :
       LinkWritten(r) =>
         LET oid == ObjectId(req[r].id)
         IN  /\ store'[oid].movie_stream_links # store[oid].movie_stream_links
                  => req[r].doctype = Some("movie")
             /\ store'[oid].seasons # store[oid].seasons
                  => req[r].doctype # Some("movie")
             /\ \A k \in DOMAIN store[oid] \ {"movie_stream_links", "seasons"} :
                  store'[oid][k] = store[oid][k]]_vars

\* C10's case: add_link read the type movie, an edit then made the record a
\* series, and add_link's update has appended to movie_stream_links.
C10_Witness ==
  \E r \in Reqs :
    /\ req[r].pc = "link_find"
    /\ req[r].doctype = Some("movie")
    /\ store[ObjectId(req[r].id)].type = Some("series")
    /\ store[ObjectId(req[r].id)].movie_stream_links = Some(req[r].links)

====
